---- MODULE Spec2Model ----
(***************************************************************************)
(* Model of legal_ner/main_ensemble.py: the ensemble tagger                *)
(* (CustomModelWithCRF), the metric function compute_metrics and the       *)
(* driver loop of the __main__ block.                                      *)
(*                                                                         *)
(* Conventions.                                                            *)
(*  - A tag such as "B-COURT" is the tuple of its "-"-separated parts,     *)
(*    <<"B", "COURT">>; the tag "O" is <<"O">>.  "B-" + l builds the       *)
(*    tuple, l.split("-") reads it back.                                   *)
(*  - Python lists and numpy arrays are sequences; an index-keyed dict or  *)
(*    a score vector is a function on 0 .. n-1.                            *)
(*  - A number that is not an integer is an exact fraction.                *)
(***************************************************************************)
EXTENDS Integers, Sequences, FiniteSets

VARIABLES
    pc,             \* position of the driver (__main__ block)
    args,           \* parsed command line: freeze, num_epochs
    it,             \* index into model_paths of the running iteration (0-based)
    epoch,          \* epochs finished by the running trainer.train()
    model,          \* the CustomModelWithCRF instance bound to `model`
    idx_to_labels,  \* the driver's global idx_to_labels
    fs,             \* file system: checkpoint directories and saved model
    log,            \* trainer calls performed, in order
    met,            \* frame of the last compute_metrics call
    fwd             \* frame of the last CustomModelWithCRF.forward call

vars == <<pc, args, it, epoch, model, idx_to_labels, fs, log, met, fwd>>

(***************************************************************************)
(* Bounds of the model.                                                    *)
(***************************************************************************)
\* total number of label positions (examples x length) of an evaluation set
MaxTokens == 3
\* evaluation positions drawn inside the driver run
DriverTokens == 1
\* largest --num_epochs value drawn
MaxEpochs == 3
\* largest batch handed to forward
MaxBatch == 2
\* largest padded sequence length handed to forward
MaxSeqLen == 2

\* entity types that occur in the drawn gold and predicted tags
UsedTypes == {"COURT", "PETITIONER"}

(***************************************************************************)
(* Generic helpers.                                                        *)
(***************************************************************************)
RECURSIVE GCD(_, _)
GCD(a, b) == IF b = 0 THEN a ELSE GCD(b, a % b)

\* the fraction a/b in lowest terms (b > 0)
Rat(a, b) == LET g == GCD(a, b) IN IF a = 0 THEN <<0, 1>> ELSE <<a \div g, b \div g>>

Range(s) == {s[i] : i \in DOMAIN s}

\* all sequences over S of length exactly n
SeqsOfLen(S, n) == [1..n -> S]

(***************************************************************************)
(* Labels (main_ensemble.py 184-203).                                      *)
(***************************************************************************)
original_label_list ==
    << "COURT", "PETITIONER", "RESPONDENT", "JUDGE", "DATE", "ORG", "GPE",
       "STATUTE", "PROVISION", "PRECEDENT", "CASE_NUMBER", "WITNESS",
       "OTHER_PERSON", "LAWYER" >>

labels_list ==
    [i \in 1..Len(original_label_list) |-> <<"B", original_label_list[i]>>]
    \o [i \in 1..Len(original_label_list) |-> <<"I", original_label_list[i]>>]

\* num_labels with a slot for the ignore sentinel added (faulty variant)
NumLabelsOffByOne == Len(labels_list) + 2

num_labels == Len(labels_list) + 1

OTag == <<"O">>

IgnoreIndex == -100

\* LegalNERTokenDataset.labels_to_idx: the canonical ordered label list
\* (labels_list followed by "O") numbered from 0.
labels_to_idx ==
    LET canon == labels_list \o <<OTag>>
    IN  [t \in Range(canon) |-> (CHOOSE i \in 1..Len(canon) : canon[i] = t) - 1]

\* {v[1]: v[0] for v in train_ds.labels_to_idx.items()}
InvertMapping(m) ==
    [i \in {m[t] : t \in DOMAIN m} |-> CHOOSE t \in DOMAIN m : m[t] = i]

(***************************************************************************)
(* compute_metrics, lines 206-245, with the nervaluate Evaluator it drives *)
(* (loader="list"; the release whose evaluate() returns the overall and    *)
(* the per-tag results, as line 224 unpacks them).                         *)
(***************************************************************************)
\* np.argmax(v): the first index holding the largest value
RECURSIVE ArgMaxFrom(_, _, _)
ArgMaxFrom(v, i, best) ==
    IF i \notin DOMAIN v THEN best
    ELSE ArgMaxFrom(v, i + 1, IF v[i] > v[best] THEN i ELSE best)

ArgMax(v) == ArgMaxFrom(v, 1, 0)

\* rows joined with a padding position between them (faulty variant)
RECURSIVE ConcatenateWithGap(_)
ConcatenateWithGap(rows) ==
    IF rows = <<>> THEN <<>>
    ELSE IF Len(rows) = 1 THEN rows[1]
    ELSE rows[1] \o <<IgnoreIndex>> \o ConcatenateWithGap(Tail(rows))

\* np.concatenate(rows, axis=0): the rows of a 2-d array one after another
RECURSIVE Concatenate(_)
Concatenate(rows) ==
    IF rows = <<>> THEN <<>> ELSE rows[1] \o Concatenate(Tail(rows))

\* idx_to_labels[p] if p != -100 else "O"
TagOf(map, p) == IF p # IgnoreIndex THEN map[p] ELSE OTag

\* [[idx_to_labels[p] if p != -100 else "O" for p in flat]]: one document
ToDocuments(map, flat) == << [k \in 1..Len(flat) |-> TagOf(map, flat[k])] >>

\* l.split("-")[-1]
LastPart(tag) == tag[Len(tag)]

\* token_tag[2:] and token_tag[:1] of nervaluate
TagType(tag) == IF Len(tag) = 2 THEN tag[2] ELSE ""
TagPrefix(tag) == tag[1]

NoneVal == "None"

\* nervaluate.collect_named_entities: offsets are 0-based, `end` inclusive.
\* k is the 1-based position of the token read next; st and ty are
\* start_offset and ent_type (-1 and NoneVal for None).
RECURSIVE CollectFrom(_, _, _, _, _)
CollectFrom(tokens, k, ents, st, ty) ==
    IF k > Len(tokens)
    THEN IF ty # NoneVal /\ st # -1
         THEN Append(ents, [label |-> ty, start |-> st, end |-> Len(tokens) - 1])
         ELSE ents
    ELSE LET tag == tokens[k]
             offset == k - 1
         IN  IF tag = OTag
             THEN IF ty # NoneVal /\ st # -1
                  THEN CollectFrom(tokens, k + 1,
                           Append(ents, [label |-> ty, start |-> st, end |-> offset - 1]),
                           -1, NoneVal)
                  ELSE CollectFrom(tokens, k + 1, ents, st, ty)
             ELSE IF ty = NoneVal
             THEN CollectFrom(tokens, k + 1, ents, offset, TagType(tag))
             ELSE IF ty # TagType(tag) \/ (ty = TagType(tag) /\ TagPrefix(tag) = "B")
             THEN CollectFrom(tokens, k + 1,
                      Append(ents, [label |-> ty, start |-> st, end |-> offset - 1]),
                      offset, TagType(tag))
             ELSE CollectFrom(tokens, k + 1, ents, st, ty)

collect_named_entities(tokens) == CollectFrom(tokens, 1, <<>>, -1, NoneVal)

\* range(ent["start"], ent["end"]) and nervaluate.find_overlap
EntRange(e) == e.start .. (e.end - 1)
find_overlap(true_range, pred_range) == true_range \cap pred_range # {}

Schemas == {"strict", "ent_type", "partial", "exact"}

ZeroCounts == [correct |-> 0, incorrect |-> 0, partial |-> 0, missed |-> 0, spurious |-> 0]
ZeroEvaluation == [s \in Schemas |-> ZeroCounts]

\* evaluation[s][what[s]] += 1 for every schema s
Bump(ev, what) ==
    [s \in Schemas |-> [ev[s] EXCEPT ![what[s]] = @ + 1]]

AllSchemas(name) == [s \in Schemas |-> name]

\* The inner loop `for true in true_named_entities` of nervaluate.compute_metrics
\* for one predicted entity that has no exact match: the first gold entity that
\* matches scenario IV, V or VI ends the loop.  Returns the updated evaluation,
\* the updated list true_which_overlapped_with_pred and found_overlap.
RECURSIVE ScanTrue(_, _, _, _, _)
ScanTrue(pred, trues, j, ev, overlapped) ==
    IF j > Len(trues) THEN [ev |-> ev, overlapped |-> overlapped, found |-> FALSE]
    ELSE LET true == trues[j] IN
         IF true.start = pred.start /\ pred.end = true.end /\ true.label # pred.label
         THEN [ev |-> Bump(ev, [strict |-> "incorrect", ent_type |-> "incorrect",
                                partial |-> "correct", exact |-> "correct"]),
               overlapped |-> Append(overlapped, true), found |-> TRUE]
         ELSE IF find_overlap(EntRange(true), EntRange(pred))
         THEN IF pred.label = true.label
              THEN [ev |-> Bump(ev, [strict |-> "incorrect", ent_type |-> "correct",
                                     partial |-> "partial", exact |-> "incorrect"]),
                    overlapped |-> Append(overlapped, true), found |-> TRUE]
              ELSE [ev |-> Bump(ev, [strict |-> "incorrect", ent_type |-> "incorrect",
                                     partial |-> "partial", exact |-> "incorrect"]),
                    overlapped |-> Append(overlapped, true), found |-> TRUE]
         ELSE ScanTrue(pred, trues, j + 1, ev, overlapped)

\* The loop `for pred in pred_named_entities`.
RECURSIVE ScanPred(_, _, _, _, _)
ScanPred(preds, trues, i, ev, overlapped) ==
    IF i > Len(preds) THEN [ev |-> ev, overlapped |-> overlapped]
    ELSE LET pred == preds[i] IN
         IF pred \in Range(trues)
         THEN ScanPred(preds, trues, i + 1, Bump(ev, AllSchemas("correct")),
                       Append(overlapped, pred))
         ELSE LET r == ScanTrue(pred, trues, 1, ev, overlapped) IN
              IF r.found
              THEN ScanPred(preds, trues, i + 1, r.ev, r.overlapped)
              ELSE ScanPred(preds, trues, i + 1, Bump(r.ev, AllSchemas("spurious")),
                            r.overlapped)

\* The loop `for true in true_named_entities` that counts the missed entities.
RECURSIVE CountMissed(_, _, _, _)
CountMissed(trues, j, ev, overlapped) ==
    IF j > Len(trues) THEN ev
    ELSE IF trues[j] \in Range(overlapped)
         THEN CountMissed(trues, j + 1, ev, overlapped)
         ELSE CountMissed(trues, j + 1, Bump(ev, AllSchemas("missed")), overlapped)

\* nervaluate.compute_actual_possible
Possible(c) == c.correct + c.incorrect + c.partial + c.missed
Actual(c) == c.correct + c.incorrect + c.partial + c.spurious

\* nervaluate.compute_precision_recall: partial and ent_type give half credit
\* to partial matches
PrecisionRecall(c, partial_or_type) ==
    LET credit == IF partial_or_type THEN 2 * c.correct + c.partial ELSE 2 * c.correct
    IN  [precision |-> IF Actual(c) > 0 THEN Rat(credit, 2 * Actual(c)) ELSE <<0, 1>>,
         recall    |-> IF Possible(c) > 0 THEN Rat(credit, 2 * Possible(c)) ELSE <<0, 1>>]

\* Evaluator(true, pred, tags, loader="list").evaluate() for one document:
\* the entities, the counts and the precision and recall of every schema.
Evaluate(labels_ids, prediction_ids, tags) ==
    LET KeepTag(e) == e.label \in tags
        all_true == collect_named_entities(labels_ids[1])
        all_pred == collect_named_entities(prediction_ids[1])
        trues == SelectSeq(all_true, KeepTag)
        preds == SelectSeq(all_pred, KeepTag)
        scan == ScanPred(preds, trues, 1, ZeroEvaluation, <<>>)
        ev == CountMissed(trues, 1, scan.ev, scan.overlapped)
    IN  [true_entities |-> all_true,
         pred_entities |-> all_pred,
         counts |-> ev,
         results |-> [s \in Schemas |->
                        PrecisionRecall(ev[s], s \in {"partial", "ent_type"})]]

\* no stabilising term (faulty variant)
EpsilonZero == <<0, 1>>

\* the 1e-9 of lines 232-244, as the fraction 1/10^9
Epsilon == <<1, 1000000000>>

\* p * r / (p + r + 1e-9): the factor 2 left out (faulty variant)
F1MissingFactor(p, r) ==
    LET num == p[1] * r[1]
        den == p[1] * r[2] + p[2] * r[1]
        eps == p[2] * r[2] * Epsilon[1]
    IN  [ok |-> ~(den = 0 /\ eps = 0), num |-> num, den |-> den, eps |-> eps]

\* 2 * p * r / (p + r + 1e-9) for fractions p = a/b and r = c/d.  The value is
\* num / (den + eps * Epsilon) with num = 2ac, den = ad + bc, eps = bd;
\* ok is FALSE when the divisor is zero (ZeroDivisionError).
F1(p, r) ==
    LET num == 2 * p[1] * r[1]
        den == p[1] * r[2] + p[2] * r[1]
        eps == p[2] * r[2] * Epsilon[1]
    IN  [ok |-> ~(den = 0 /\ eps = 0), num |-> num, den |-> den, eps |-> eps]

\* idx_to_labels before line 281 has bound it
Unbound == <<>>

\* The frame of a compute_metrics call that has not happened.
NoMetrics ==
    [called |-> FALSE, predictions |-> <<>>, label_ids |-> <<>>,
     prediction_ids |-> <<>>, labels_ids |-> <<>>, unique_labels |-> {},
     raised |-> "", true_entities |-> <<>>, pred_entities |-> <<>>,
     results |-> <<>>, scores |-> <<>>]

\* pred.predictions -> np.argmax(..., axis=-1) -> np.concatenate(..., axis=0)
FlatPredictions(predictions) ==
    Concatenate([i \in 1..Len(predictions) |->
                    [j \in 1..Len(predictions[i]) |-> ArgMax(predictions[i][j])]])

\* list(set([l.split("-")[-1] for l in list(set(labels_ids[0]))]))
UniqueLabels(labels_ids) == {LastPart(l) : l \in Range(labels_ids[1])}

\* compute_metrics(pred) with idx_to_labels bound to `map`: the frame at the
\* return or at the exception that ends the call.
compute_metrics(map, predictions, label_ids) ==
    IF map = Unbound
    THEN [NoMetrics EXCEPT !.called = TRUE, !.predictions = predictions,
                           !.label_ids = label_ids, !.raised = "NameError"]
    ELSE
    LET prediction_ids == ToDocuments(map, FlatPredictions(predictions))
        labels_ids == ToDocuments(map, Concatenate(label_ids))
        unique_all == UniqueLabels(labels_ids)
        base == [NoMetrics EXCEPT !.called = TRUE, !.predictions = predictions,
                                  !.label_ids = label_ids,
                                  !.prediction_ids = prediction_ids,
                                  !.labels_ids = labels_ids,
                                  !.unique_labels = unique_all]
    IN  IF "O" \notin unique_all
        THEN [base EXCEPT !.raised = "ValueError"]     \* unique_labels.remove("O")
        ELSE LET unique_labels == unique_all \ {"O"}
                 ev == Evaluate(labels_ids, prediction_ids, unique_labels)
                 f1 == [s \in Schemas |->
                          F1(ev.results[s].precision, ev.results[s].recall)]
             IN  [base EXCEPT !.unique_labels = unique_labels,
                              !.true_entities = ev.true_entities,
                              !.pred_entities = ev.pred_entities,
                              !.results = ev.results,
                              !.scores = f1,
                              !.raised = IF \E s \in Schemas : ~f1[s].ok
                                         THEN "ZeroDivisionError" ELSE "None"]

(***************************************************************************)
(* Inputs of compute_metrics: an evaluation set of n examples padded to    *)
(* length L, with the gold label ids and the label scores of every         *)
(* position.                                                               *)
(***************************************************************************)
UsedTags ==
    {OTag} \cup {<<"B", t>> : t \in UsedTypes} \cup {<<"I", "COURT">>}

\* gold label ids: the used tags and the ignore sentinel
GoldIds == {labels_to_idx[t] : t \in UsedTags} \cup {IgnoreIndex}

\* a score vector over the num_labels labels whose largest entry is at k
ScoreVector(k) == [i \in 0..(num_labels - 1) |-> IF i = k THEN 1 ELSE 0]

ScoreVectors == {ScoreVector(labels_to_idx[t]) : t \in UsedTags}

Shapes(maxTokens) ==
    {sh \in (1..maxTokens) \X (1..maxTokens) : sh[1] * sh[2] <= maxTokens}

(***************************************************************************)
(* The driver (lines 248-332).                                             *)
(***************************************************************************)
model_paths == << "bert-base-cased", "roberta-base" >>

\* --output_folder default
output_folder == <<"results/">>

\* os.path.join(os.path.join(output_folder, 'all'), model_path)
new_output_folder(model_path) == output_folder \o <<"all", model_path>>

ModuleParts == {"embeddings", "encoder", "pooler"}

\* The parameter groups of the tagger: the submodules of each pretrained model
\* (AutoModel: embeddings, encoder, pooler), the projection and the CRF.
Parameters ==
    ({"bert", "roberta"} \X ModuleParts) \cup {<<"linear">>, <<"crf">>}

NoModel ==
    [built |-> FALSE, bert |-> "", roberta |-> "", linear_out |-> 0,
     crf_num_tags |-> 0, crf |-> <<>>, requires_grad |-> <<>>, trained |-> <<>>]

\* module.requires_grad_(False): the whole pretrained model (faulty variant)
FreezeWholeModel(rg, which) ==
    [p \in DOMAIN rg |-> IF p[1] = which THEN FALSE ELSE rg[p]]

\* module.encoder.requires_grad_(False) for the pretrained model `which`
FreezeEncoder(rg, which) ==
    [p \in DOMAIN rg |-> IF p = <<which, "encoder">> THEN FALSE ELSE rg[p]]

\* The start, end and pairwise transition parameters of CRF(n), as potentials
\* (exponentials of the scores).  torchcrf draws them at random and training
\* moves them; `self_pot` is the potential of staying on the same tag.
CRFParams(n, self_pot) ==
    [start |-> [k \in 0..(n - 1) |-> 1],
     end   |-> [k \in 0..(n - 1) |-> 1],
     trans |-> [a \in 0..(n - 1) |-> [b \in 0..(n - 1) |-> IF a = b THEN self_pot ELSE 1]]]

\* CustomModelWithCRF.__init__ (lines 18-37)
Construct(bert_path, roberta_path, n, freeze, self_pot) ==
    LET fresh == [p \in Parameters |-> TRUE]
        after_bert == IF freeze THEN FreezeEncoder(fresh, "bert") ELSE fresh
        after_roberta == IF freeze THEN FreezeEncoder(after_bert, "roberta")
                         ELSE after_bert
    IN  [built |-> TRUE, bert |-> bert_path, roberta |-> roberta_path,
         linear_out |-> n, crf_num_tags |-> n, crf |-> CRFParams(n, self_pot),
         requires_grad |-> after_roberta, trained |-> <<>>]

(***************************************************************************)
(* The CRF layer of the tagger (torchcrf.CRF, batch_first=True) as         *)
(* forward uses it on lines 57 and 60.  Scores are kept as potentials,     *)
(* the exponentials of the scores: a sum of scores is a product of         *)
(* potentials, logsumexp is a sum, and a log-likelihood is the logarithm   *)
(* of a fraction <<numerator, partition>>.                                 *)
(***************************************************************************)
RECURSIVE SumTo(_, _)
SumTo(f, k) == IF k < 0 THEN 0 ELSE f[k] + SumTo(f, k - 1)

\* number of TRUE entries of a mask row
RECURSIVE CountTrue(_)
CountTrue(row) ==
    IF row = <<>> THEN 0 ELSE (IF row[1] THEN 1 ELSE 0) + CountTrue(Tail(row))

RECURSIVE CountAllTrue(_)
CountAllTrue(mask) ==
    IF mask = <<>> THEN 0 ELSE CountTrue(mask[1]) + CountAllTrue(Tail(mask))

\* CRF._validate: mask[:, 0].all()
FirstTimestepOn(mask) == \A b \in 1..Len(mask) : mask[b][1]

\* CRF._compute_score for one example: the potential of the path `tags`
RECURSIVE PathScoreFrom(_, _, _, _, _)
PathScoreFrom(crf, em, tags, mask, i) ==
    IF i > Len(tags) THEN 1
    ELSE (IF mask[i] THEN crf.trans[tags[i - 1]][tags[i]] * em[i][tags[i]] ELSE 1)
         * PathScoreFrom(crf, em, tags, mask, i + 1)

ComputeScore(crf, em, tags, mask) ==
    LET seq_end == CountTrue(mask)       \* 1-based position of the last valid token
    IN  crf.start[tags[1]] * em[1][tags[1]]
        * PathScoreFrom(crf, em, tags, mask, 2)
        * crf.end[tags[seq_end]]

\* CRF._compute_normalizer for one example: the forward algorithm
RECURSIVE NormalizerFrom(_, _, _, _, _, _)
NormalizerFrom(crf, n, em, mask, i, score) ==
    IF i > Len(em) THEN score
    ELSE LET next_score ==
                 [cur \in 0..(n - 1) |->
                    SumTo([prev \in 0..(n - 1) |->
                             score[prev] * crf.trans[prev][cur] * em[i][cur]], n - 1)]
         IN  NormalizerFrom(crf, n, em, mask, i + 1,
                            IF mask[i] THEN next_score ELSE score)

ComputeNormalizer(crf, n, em, mask) ==
    LET first == [k \in 0..(n - 1) |-> crf.start[k] * em[1][k]]
        last == NormalizerFrom(crf, n, em, mask, 2, first)
    IN  SumTo([k \in 0..(n - 1) |-> last[k] * crf.end[k]], n - 1)

\* The reduction of CRF.forward over the per-example likelihoods `llh`
\* (fractions <<numerator, partition>>).  The result stands for
\* (sum of the logarithms of `terms`) / div.
Reduce(llh, mask, reduction) ==
    [terms |-> llh,
     div |-> CASE reduction = "sum" -> 1
               [] reduction = "mean" -> Len(llh)
               [] reduction = "token_mean" -> CountAllTrue(mask)]

\* torchcrf's per-token reduction (faulty variant)
ForwardReductionTokenMean == "token_mean"

\* the reduction forward asks for on line 57
ForwardReduction == "mean"

\* unary minus on a reduced log-likelihood: each fraction is inverted
Negate(x) == [x EXCEPT !.terms = [b \in DOMAIN x.terms |-> <<x.terms[b][2], x.terms[b][1]>>]]

\* self.crf(logits, labels, mask=..., reduction=...)
CRFForward(crf, n, logits, labels, mask, reduction) ==
    Reduce([b \in 1..Len(logits) |->
              Rat(ComputeScore(crf, logits[b], labels[b], mask[b]),
                  ComputeNormalizer(crf, n, logits[b], mask[b]))],
           mask, reduction)

\* CRF._viterbi_decode, the recursion over the timesteps: the final scores
\* and the history of best previous tags (one entry per timestep after the
\* first, masked or not).
RECURSIVE ViterbiFrom(_, _, _, _, _, _, _)
ViterbiFrom(crf, n, em, mask, i, score, history) ==
    IF i > Len(em) THEN [score |-> score, history |-> history]
    ELSE LET cand(cur) == [prev \in 0..(n - 1) |-> score[prev] * crf.trans[prev][cur]]
             indices == [cur \in 0..(n - 1) |-> ArgMax(cand(cur))]
             next_score == [cur \in 0..(n - 1) |-> cand(cur)[indices[cur]] * em[i][cur]]
         IN  ViterbiFrom(crf, n, em, mask, i + 1,
                         IF mask[i] THEN next_score ELSE score,
                         Append(history, indices))

\* the backtrace `for hist in reversed(history[:seq_ends[idx]])`; k counts the
\* history entries still to follow, tags is best_tags reversed back
RECURSIVE Backtrace(_, _, _)
Backtrace(history, k, tags) ==
    IF k = 0 THEN tags
    ELSE Backtrace(history, k - 1, <<history[k][tags[1]]>> \o tags)

ViterbiDecodeOne(crf, n, em, mask) ==
    LET first == [k \in 0..(n - 1) |-> crf.start[k] * em[1][k]]
        run == ViterbiFrom(crf, n, em, mask, 2, first, <<>>)
        final == [k \in 0..(n - 1) |-> run.score[k] * crf.end[k]]
        seq_end == CountTrue(mask) - 1
    IN  Backtrace(run.history, seq_end, <<ArgMax(final)>>)

\* self.crf.decode(logits, mask): _validate, then one tag list per example
Decode(crf, n, logits, mask) ==
    IF ~FirstTimestepOn(mask)
    THEN [raised |-> "ValueError", outputs |-> <<>>]
    ELSE [raised |-> "None",
          outputs |-> [b \in 1..Len(logits) |->
                         ViterbiDecodeOne(crf, n, logits[b], mask[b])]]

\* The frame of a forward call that has not happened.
NoForward ==
    [called |-> FALSE, mode |-> "", mask |-> <<>>, logits |-> <<>>,
     labels |-> <<>>, raised |-> "", loss |-> [terms |-> <<>>, div |-> 0],
     outputs |-> <<>>]

\* CustomModelWithCRF.forward (lines 39-61).  The encoders, the dropout and the
\* projection are numeric code outside the model: `logits` is their result.
Forward(m, logits, mask, labels, has_labels) ==
    LET base == [NoForward EXCEPT !.called = TRUE, !.mask = mask,
                                  !.logits = logits, !.labels = labels,
                                  !.mode = IF has_labels THEN "train" ELSE "infer"]
    IN  IF has_labels
        THEN IF ~FirstTimestepOn(mask)
             THEN [base EXCEPT !.raised = "ValueError"]
             ELSE [base EXCEPT !.raised = "None",
                               !.loss = Negate(CRFForward(m.crf, m.crf_num_tags, logits,
                                                          labels, mask, ForwardReduction))]
        ELSE LET d == Decode(m.crf, m.crf_num_tags, logits, mask)
             IN  [base EXCEPT !.raised = d.raised, !.outputs = d.outputs]

(***************************************************************************)
(* Inputs of forward: a batch of examples padded to one length, each with  *)
(* its number of valid tokens (the attention mask is 1 on them and 0 on    *)
(* the padding that follows), its emission potentials and its gold tags.   *)
(***************************************************************************)
NumLabelsChoices == {2, 3}
SelfPotentials == {1, 2}
EmissionPatterns == {"uniform", "first", "alternate"}
LabelPatterns == {"zeros", "alternate"}

PrefixMask(valid, len) == [t \in 1..len |-> t <= valid]

Emissions(pattern, len, n) ==
    [t \in 1..len |-> [k \in 0..(n - 1) |->
        CASE pattern = "uniform" -> 1
          [] pattern = "first" -> IF k = 0 THEN 2 ELSE 1
          [] pattern = "alternate" -> IF k = (t - 1) % n THEN 2 ELSE 1]]

GoldTags(pattern, len, n) ==
    [t \in 1..len |-> IF pattern = "zeros" THEN 0 ELSE (t - 1) % n]

Examples(len) == [valid : 0..len, em : EmissionPatterns, gold : LabelPatterns]

Batches == UNION {SeqsOfLen(Examples(len), b) : <<b, len>> \in (1..MaxBatch) \X (1..MaxSeqLen)}

BatchLen(batch) == CHOOSE len \in 1..MaxSeqLen : batch[1] \in Examples(len)

MaskOf(batch, len) == [b \in 1..Len(batch) |-> PrefixMask(batch[b].valid, len)]
LogitsOf(batch, len, n) == [b \in 1..Len(batch) |-> Emissions(batch[b].em, len, n)]
LabelsOf(batch, len, n) == [b \in 1..Len(batch) |-> GoldTags(batch[b].gold, len, n)]

(***************************************************************************)
(* Actions of the driver.                                                  *)
(***************************************************************************)
model_path == model_paths[it + 1]

\* saving next to the checkpoints of the iteration (faulty variant)
SaveFolderPerModel(path) == new_output_folder(path)

\* trainer.save_model(output_folder), line 331
SaveFolder(path) == output_folder

NoFiles == [dirs |-> {}, checkpoints |-> {}, saved |-> {}]

\* What is left of a compute_metrics call once the trainer has taken its
\* result: the returned scores, or the exception that ended the call.
LoggedMetrics(frame) ==
    [NoMetrics EXCEPT !.called = TRUE, !.raised = frame.raised, !.scores = frame.scores]

\* An exception raised inside a trainer call is not caught: the script ends.
AfterCall(frame, next_pc) == IF frame.raised = "None" THEN next_pc ELSE "failed"

\* args = parser.parse_args(), lines 170-182
ParseArgs ==
    /\ pc = "parse_args"
    /\ \E f \in BOOLEAN, e \in 1..MaxEpochs :
          args' = [freeze |-> f, num_epochs |-> e]
    /\ pc' = "loop"
    /\ UNCHANGED <<it, epoch, model, idx_to_labels, fs, log, met, fwd>>

\* for model_path in model_paths, line 252
LoopHead ==
    /\ pc = "loop"
    /\ pc' = IF it < Len(model_paths) THEN "build" ELSE "done"
    /\ UNCHANGED <<args, it, epoch, model, idx_to_labels, fs, log, met, fwd>>

\* the datasets and the model of the iteration, lines 254-278
BuildModel ==
    /\ pc = "build"
    /\ model' = Construct(model_paths[1], model_paths[2], num_labels, args.freeze, 1)
    /\ pc' = "bind"
    /\ UNCHANGED <<args, it, epoch, idx_to_labels, fs, log, met, fwd>>

\* idx_to_labels = {v[1]: v[0] for v in train_ds.labels_to_idx.items()}, line 281
BindIdxToLabels ==
    /\ pc = "bind"
    /\ idx_to_labels' = InvertMapping(labels_to_idx)
    /\ pc' = "mkdir"
    /\ UNCHANGED <<args, it, epoch, model, fs, log, met, fwd>>

\* the output folder, the training arguments and the trainer, lines 284-326
MakeTrainer ==
    /\ pc = "mkdir"
    /\ fs' = [fs EXCEPT !.dirs = @ \cup {new_output_folder(model_path)}]
    /\ epoch' = 0
    /\ pc' = "train"
    /\ UNCHANGED <<args, it, model, idx_to_labels, log, met, fwd>>

\* trainer.train(), line 330, one epoch at a time: the training steps, the
\* evaluation of the epoch (evaluation_strategy="epoch") with compute_metrics,
\* and the checkpoint of the epoch (save_strategy="epoch") in output_dir.
TrainEpoch ==
    /\ pc = "train"
    /\ epoch < args.num_epochs
    /\ \E sh \in Shapes(DriverTokens) :
         \E predictions \in SeqsOfLen(SeqsOfLen(ScoreVectors, sh[2]), sh[1]),
            label_ids \in SeqsOfLen(SeqsOfLen(GoldIds, sh[2]), sh[1]) :
              LET frame == compute_metrics(idx_to_labels, predictions, label_ids) IN
              /\ met' = LoggedMetrics(frame)
              /\ pc' = AfterCall(frame, IF epoch + 1 = args.num_epochs
                                        THEN "save" ELSE "train")
              /\ fs' = IF frame.raised = "None"
                       THEN [fs EXCEPT !.checkpoints = @ \cup {new_output_folder(model_path)}]
                       ELSE fs
    /\ model' = [model EXCEPT !.trained = Append(@, model_path)]
    /\ log' = IF epoch = 0 THEN Append(log, <<"train", model_path>>) ELSE log
    /\ epoch' = epoch + 1
    /\ UNCHANGED <<args, it, idx_to_labels, fwd>>

\* trainer.save_model(output_folder), line 331
SaveModel ==
    /\ pc = "save"
    /\ LET folder == SaveFolder(model_path) IN
         fs' = [fs EXCEPT !.saved = {e \in @ : e.folder # folder}
                                    \cup {[folder |-> folder, by |-> model_path,
                                           trained |-> model.trained]}]
    /\ log' = Append(log, <<"save_model", model_path>>)
    /\ pc' = "evaluate"
    /\ UNCHANGED <<args, it, epoch, model, idx_to_labels, met, fwd>>

\* trainer.evaluate(), line 332, and the end of the loop body
EvaluateModel ==
    /\ pc = "evaluate"
    /\ \E sh \in Shapes(DriverTokens) :
         \E predictions \in SeqsOfLen(SeqsOfLen(ScoreVectors, sh[2]), sh[1]),
            label_ids \in SeqsOfLen(SeqsOfLen(GoldIds, sh[2]), sh[1]) :
              LET frame == compute_metrics(idx_to_labels, predictions, label_ids) IN
              /\ met' = LoggedMetrics(frame)
              /\ pc' = AfterCall(frame, "loop")
              /\ it' = IF frame.raised = "None" THEN it + 1 ELSE it
    /\ log' = Append(log, <<"evaluate", model_path>>)
    /\ UNCHANGED <<args, epoch, model, idx_to_labels, fs, fwd>>

NoArgs == [freeze |-> FALSE, num_epochs |-> 1]

Init ==
    /\ pc = "parse_args"
    /\ args = NoArgs
    /\ it = 0
    /\ epoch = 0
    /\ model = NoModel
    /\ idx_to_labels = Unbound
    /\ fs = NoFiles
    /\ log = <<>>
    /\ met = NoMetrics
    /\ fwd = NoForward

Next ==
    \/ ParseArgs
    \/ LoopHead
    \/ BuildModel
    \/ BindIdxToLabels
    \/ MakeTrainer
    \/ TrainEpoch
    \/ SaveModel
    \/ EvaluateModel

Spec == Init /\ [][Next]_vars

(***************************************************************************)
(* compute_metrics on its own: the calls the trainer makes during          *)
(* trainer.train() of the first iteration, over every evaluation set of    *)
(* at most MaxTokens positions.                                            *)
(***************************************************************************)
InitMetrics ==
    /\ pc = "train"
    /\ args = NoArgs
    /\ model = Construct(model_paths[1], model_paths[2], num_labels, NoArgs.freeze, 1)
    /\ it = 0
    /\ epoch = 0
    /\ idx_to_labels = InvertMapping(labels_to_idx)
    /\ fs = [NoFiles EXCEPT !.dirs = {new_output_folder(model_paths[1])}]
    /\ log = <<>>
    /\ met = NoMetrics
    /\ fwd = NoForward

\* The trainer's evaluation loop has gathered the gold label ids of the
\* evaluation set (pred.label_ids).
GatherLabels ==
    /\ pc = "train"
    /\ ~met.called
    /\ met.label_ids = <<>>
    /\ \E sh \in Shapes(MaxTokens) :
         \E label_ids \in SeqsOfLen(SeqsOfLen(GoldIds, sh[2]), sh[1]) :
              met' = [NoMetrics EXCEPT !.label_ids = label_ids]
    /\ UNCHANGED <<pc, args, it, epoch, model, idx_to_labels, fs, log, fwd>>

\* The trainer calls compute_metrics with the label scores of the model
\* (pred.predictions), shaped like the label ids.
ComputeMetrics ==
    /\ pc = "train"
    /\ ~met.called
    /\ met.label_ids # <<>>
    /\ \E predictions \in SeqsOfLen(SeqsOfLen(ScoreVectors, Len(met.label_ids[1])),
                                    Len(met.label_ids)) :
              met' = compute_metrics(idx_to_labels, predictions, met.label_ids)
    /\ UNCHANGED <<pc, args, it, epoch, model, idx_to_labels, fs, log, fwd>>

\* the call is over: its frame is dropped and the trainer may call again
ReturnMetrics ==
    /\ met.called
    /\ met' = NoMetrics
    /\ UNCHANGED <<pc, args, it, epoch, model, idx_to_labels, fs, log, fwd>>

NextMetrics ==
    \/ GatherLabels
    \/ ComputeMetrics
    \/ ReturnMetrics

SpecMetrics == InitMetrics /\ [][NextMetrics]_vars

(***************************************************************************)
(* The tagger on its own: construction, then forward in both modes.        *)
(***************************************************************************)
InitTagger ==
    /\ pc = "build"
    /\ args = NoArgs
    /\ it = 0
    /\ epoch = 0
    /\ model = NoModel
    /\ idx_to_labels = Unbound
    /\ fs = NoFiles
    /\ log = <<>>
    /\ met = NoMetrics
    /\ fwd = NoForward

ConstructTagger ==
    /\ pc = "build"
    /\ ~model.built
    /\ \E n \in NumLabelsChoices, f \in BOOLEAN, sp \in SelfPotentials :
         /\ args' = [args EXCEPT !.freeze = f]
         /\ model' = Construct(model_paths[1], model_paths[2], n, f, sp)
    /\ UNCHANGED <<pc, it, epoch, idx_to_labels, fs, log, met, fwd>>

ForwardTrain ==
    /\ model.built
    /\ ~fwd.called
    /\ \E batch \in Batches :
         LET len == BatchLen(batch)
             n == model.crf_num_tags
         IN  fwd' = Forward(model, LogitsOf(batch, len, n), MaskOf(batch, len),
                            LabelsOf(batch, len, n), TRUE)
    /\ UNCHANGED <<pc, args, it, epoch, model, idx_to_labels, fs, log, met>>

ForwardInfer ==
    /\ model.built
    /\ ~fwd.called
    /\ \E batch \in Batches :
         LET len == BatchLen(batch)
             n == model.crf_num_tags
         IN  fwd' = Forward(model, LogitsOf(batch, len, n), MaskOf(batch, len),
                            <<>>, FALSE)
    /\ UNCHANGED <<pc, args, it, epoch, model, idx_to_labels, fs, log, met>>

\* the call is over: its frame is dropped and forward may be called again
ReturnForward ==
    /\ fwd.called
    /\ fwd' = NoForward
    /\ UNCHANGED <<pc, args, it, epoch, model, idx_to_labels, fs, log, met>>

NextTagger ==
    \/ ConstructTagger
    \/ ReturnForward
    \/ ForwardTrain
    \/ ForwardInfer

SpecTagger == InitTagger /\ [][NextTagger]_vars

(***************************************************************************)
(* Properties.                                                             *)
(***************************************************************************)
Returned == met.called /\ met.raised = "None"

\* the value num / (den + eps * Epsilon) of an F1 record is exactly 1
IsExactlyOne(f) ==
    /\ f.ok
    /\ IF f.num <= f.den
       THEN f.num = f.den /\ f.eps = 0
       ELSE /\ f.eps % (f.num - f.den) = 0
            /\ (f.eps \div (f.num - f.den)) * Epsilon[1] = Epsilon[2]

\* the value of an F1 record is exactly 2 / (2 + 1e-9)
IsTwoOverTwoPlusEpsilon(f) ==
    f.ok /\ f.num > 0 /\ f.num = f.den /\ 2 * f.eps = f.num /\ Epsilon = <<1, 1000000000>>

SameNonEmptySpans ==
    /\ Range(met.true_entities) = Range(met.pred_entities)
    /\ met.true_entities # <<>>

\* C1 as stated: when the decoded gold and predicted span sets are identical
\* and non-empty, each of the four returned scores equals exactly 1.0.
C1_AllScoresExactlyOne ==
    (Returned /\ SameNonEmptySpans) => \A s \in Schemas : IsExactlyOne(met.scores[s])

\* C1 amended: when the decoded gold and predicted span sets are identical and
\* non-empty, precision and recall are 1 in every regime and each of the four
\* returned scores equals 2 / (2 + 1e-9), just below 1.0.
C1_AllScoresNearOne ==
    (Returned /\ SameNonEmptySpans) =>
        \A s \in Schemas :
            /\ met.results[s].precision = <<1, 1>>
            /\ met.results[s].recall = <<1, 1>>
            /\ IsTwoOverTwoPlusEpsilon(met.scores[s])
            /\ ~IsExactlyOne(met.scores[s])

\* C1 witness: a returned call with two identical gold and predicted spans
\* whose tag sequences differ.
C1_Witness ==
    /\ Returned
    /\ SameNonEmptySpans
    /\ Len(met.true_entities) = 2
    /\ met.labels_ids # met.prediction_ids

\* C2 as stated: in inference mode forward returns, for every example, a tag
\* list as long as the number of true mask positions, also for an example
\* whose mask is all false.
C2_DecodeCoversMask ==
    (fwd.called /\ fwd.mode = "infer") =>
        /\ fwd.raised = "None"
        /\ Len(fwd.outputs) = Len(fwd.mask)
        /\ \A b \in 1..Len(fwd.mask) : Len(fwd.outputs[b]) = CountTrue(fwd.mask[b])

\* C3 as stated: at every position whose gold label id is the ignore sentinel,
\* the gold tag and the predicted tag handed to the evaluator are both "O".
C3_SentinelPositionsAreOutside ==
    (met.called /\ met.raised # "NameError") =>
        LET flat == Concatenate(met.label_ids) IN
        \A k \in 1..Len(flat) :
            flat[k] = IgnoreIndex =>
                /\ met.labels_ids[1][k] = OTag
                /\ met.prediction_ids[1][k] = OTag

TagSetSize == Cardinality(({"B", "I"} \X Range(original_label_list)) \cup {OTag})

\* C4 as stated: the projection width and the CRF label dimension of the
\* tagger the driver builds equal 2 * 14 + 1 (O) + 1 (ignore sentinel).
C4_WidthCountsSentinel ==
    model.built =>
        /\ model.linear_out = 2 * Len(original_label_list) + 1 + 1
        /\ model.crf_num_tags = 2 * Len(original_label_list) + 1 + 1

\* C4 amended: the projection width and the CRF label dimension of the tagger
\* the driver builds both equal 2 * 14 + 1: one B- and one I- tag per entity
\* type plus "O", with no slot for the ignore sentinel.
C4_WidthIsTagCount ==
    model.built =>
        /\ model.linear_out = 2 * Len(original_label_list) + 1
        /\ model.crf_num_tags = model.linear_out
        /\ model.linear_out = TagSetSize
        /\ DOMAIN model.crf.start = 0..(model.linear_out - 1)

\* C4 witness: the driver has built the tagger, of width 29.
C4_Witness ==
    /\ pc = "train"
    /\ model.built
    /\ Len(original_label_list) = 14
    /\ model.linear_out = 29
    /\ model.crf_num_tags = 29

EncoderParameters == {"bert", "roberta"} \X {"encoder"}
PretrainedParameters == {"bert", "roberta"} \X ModuleParts

\* C5 as stated: with the freeze flag every parameter of self.bert and of
\* self.roberta is frozen and the projection and the CRF stay trainable;
\* without it nothing is frozen.
C5_FreezeAllPretrained ==
    model.built =>
        IF args.freeze
        THEN \A p \in Parameters : model.requires_grad[p] = (p \notin PretrainedParameters)
        ELSE \A p \in Parameters : model.requires_grad[p]

\* C5 amended: with the freeze flag exactly the parameters of the .encoder
\* submodule of self.bert and of self.roberta are frozen; their embeddings and
\* poolers, the projection and the CRF stay trainable; without the flag
\* nothing is frozen.
C5_FreezeEncoderLayersOnly ==
    model.built =>
        IF args.freeze
        THEN \A p \in Parameters : model.requires_grad[p] = (p \notin EncoderParameters)
        ELSE \A p \in Parameters : model.requires_grad[p]

\* C5 witness: a tagger built with --freeze whose encoders are frozen and
\* whose embeddings and projection are not.
C5_Witness ==
    /\ pc = "train"
    /\ model.built
    /\ args.freeze
    /\ ~model.requires_grad[<<"bert", "encoder">>]
    /\ ~model.requires_grad[<<"roberta", "encoder">>]
    /\ model.requires_grad[<<"roberta", "embeddings">>]
    /\ model.requires_grad[<<"linear">>]

TrainingLoss == fwd.called /\ fwd.mode = "train" /\ fwd.raised = "None"

\* C6 as stated: the training loss is the negative log-likelihood divided by
\* the number of valid (mask-true) tokens.
C6_LossPerToken ==
    TrainingLoss => fwd.loss.div = CountAllTrue(fwd.mask)

\* C6 amended: the training loss is the batch mean: the sum over the examples
\* of the whole-sequence negative log-likelihood (each at least 0) divided by
\* the number of examples, whatever their valid lengths.
C6_LossPerExample ==
    TrainingLoss =>
        /\ fwd.loss.div = Len(fwd.mask)
        /\ Len(fwd.loss.terms) = Len(fwd.mask)
        /\ \A b \in 1..Len(fwd.mask) :
              /\ fwd.loss.terms[b][2] > 0
              /\ fwd.loss.terms[b][1] >= fwd.loss.terms[b][2]

\* C6 witness: a training loss over two examples of different valid length.
C6_Witness ==
    /\ TrainingLoss
    /\ Len(fwd.mask) = 2
    /\ CountTrue(fwd.mask[1]) # CountTrue(fwd.mask[2])
    /\ fwd.loss.div = 2
    /\ fwd.loss.terms[1] # fwd.loss.terms[2]

\* fractions a/b with a, b <= MaxTokens; those in [0, 1] are the precisions
\* and recalls of at most MaxTokens entities
UnitFractions == {Rat(a, b) : a \in 0..MaxTokens, b \in 1..MaxTokens}

F1GridStable ==
    \A p \in UnitFractions, r \in UnitFractions :
        LET f == F1(p, r)
        IN  /\ p[1] <= p[2] /\ r[1] <= r[2] =>
                /\ f.ok
                /\ f.num >= 0
                /\ (f.den > 0 \/ f.eps > 0)
                /\ (p[1] = 0 /\ r[1] = 0) => f.num = 0

\* C7: when precision and recall are both 0 the F1 value is exactly 0, and for
\* every precision and recall the evaluator yields the computation divides by
\* a positive number and returns a value that is at least 0.
C7_F1Stable ==
    (met.called /\ met.raised \notin {"NameError", "ValueError"}) =>
        /\ met.raised = "None"
        /\ F1GridStable
        /\ \A s \in Schemas :
              LET f == met.scores[s]
                  r == met.results[s]
              IN  /\ f.ok
                  /\ f.num >= 0 /\ f.den >= 0 /\ f.eps >= 0
                  /\ (f.den > 0 \/ f.eps > 0)
                  /\ (r.precision = <<0, 1>> /\ r.recall = <<0, 1>>) => f.num = 0

\* C7 witness: a returned call with gold and predicted entities and precision
\* and recall 0 in every regime.
C7_Witness ==
    /\ Returned
    /\ met.pred_entities # <<>>
    /\ met.true_entities # <<>>
    /\ \A s \in Schemas :
          /\ met.results[s].precision = <<0, 1>>
          /\ met.results[s].recall = <<0, 1>>
          /\ met.scores[s].ok
          /\ met.scores[s].num = 0

\* entity types with at least one gold B- or I- tag
GoldTypes ==
    {t \in Range(original_label_list) :
        \E k \in 1..Len(met.labels_ids[1]) :
            met.labels_ids[1][k] \in {<<"B", t>>, <<"I", t>>}}

\* C8 as stated: for every batch of gold labels building the tag set does not
\* fail, and the set is exactly the entity types with a gold B- or I- tag.
C8_TagSetNeverFails ==
    (met.called /\ met.raised # "NameError") =>
        /\ met.raised # "ValueError"
        /\ met.unique_labels = GoldTypes
        /\ "O" \notin met.unique_labels

Rows == Len(met.label_ids)
Cols == Len(met.label_ids[1])

\* C9: the examples are flattened in example order into one gold and one
\* predicted tag sequence of length rows x cols with nothing between the
\* examples, and a gold entity that continues from the last position of an
\* example into the first position of the next is decoded as one span.
C9_OneFlatDocument ==
    (met.called /\ met.raised # "NameError") =>
        /\ Len(met.labels_ids) = 1
        /\ Len(met.prediction_ids) = 1
        /\ Len(met.labels_ids[1]) = Rows * Cols
        /\ Len(met.prediction_ids[1]) = Rows * Cols
        /\ \A i \in 1..Rows : \A j \in 1..Cols :
              /\ met.labels_ids[1][(i - 1) * Cols + j]
                    = TagOf(idx_to_labels, met.label_ids[i][j])
              /\ met.prediction_ids[1][(i - 1) * Cols + j]
                    = idx_to_labels[ArgMax(met.predictions[i][j])]
        /\ met.raised = "None" =>
              \A i \in 1..(Rows - 1) :
                  LET k == i * Cols
                      last == met.labels_ids[1][k]
                      first == met.labels_ids[1][k + 1]
                  IN  (last # OTag /\ first = <<"I", TagType(last)>>) =>
                          \E e \in Range(met.true_entities) :
                              e.start <= k - 1 /\ e.end >= k

\* C9 witness: a gold entity that starts in the first example and ends in a
\* later one.
C9_Witness ==
    /\ Returned
    /\ Rows >= 2
    /\ \E e \in Range(met.true_entities) : e.start <= Cols - 1 /\ e.end >= Cols

ExpectedLog ==
    << <<"train", model_paths[1]>>, <<"save_model", model_paths[1]>>,
       <<"evaluate", model_paths[1]>>,
       <<"train", model_paths[2]>>, <<"save_model", model_paths[2]>>,
       <<"evaluate", model_paths[2]>> >>

\* C10: the driver runs train, save_model, evaluate for model_paths[0] and then
\* for model_paths[1]; idx_to_labels is bound before compute_metrics is called;
\* every tagger is built from (model_paths[0], model_paths[1]); every save goes
\* to output_folder, which at the end holds the model of the last iteration;
\* the two checkpoint directories are distinct.
C10_DriverOrder ==
    /\ Len(log) <= Len(ExpectedLog)
    /\ log = SubSeq(ExpectedLog, 1, Len(log))
    /\ met.called => met.raised # "NameError"
    /\ model.built => model.bert = model_paths[1] /\ model.roberta = model_paths[2]
    /\ \A e \in fs.saved : e.folder = output_folder
    /\ Cardinality(fs.saved) <= 1
    /\ pc = "done" =>
          /\ log = ExpectedLog
          /\ \E e \in fs.saved :
                e.by = model_paths[2] /\ Range(e.trained) = {model_paths[2]}
          /\ fs.checkpoints = {new_output_folder(model_paths[1]),
                               new_output_folder(model_paths[2])}
          /\ Cardinality(fs.checkpoints) = 2
          /\ fs.dirs = fs.checkpoints

\* C10 witness: the run is over after both iterations.
C10_Witness ==
    /\ pc = "done"
    /\ Len(log) = 6
    /\ fs.saved # {}

====
